---- MODULE Spec2Model ----
(***************************************************************************)
(* simple_server.py: a static-file HTTP server with CORS headers.          *)
(*                                                                         *)
(* The program is 46 lines: a SimpleHTTPRequestHandler subclass that       *)
(* overrides end_headers, do_OPTIONS and log_message, and a main block     *)
(* that runs a socketserver.TCPServer until KeyboardInterrupt.  What the   *)
(* program does is therefore what these three overrides do inside the      *)
(* control flow of the classes they extend (CPython's http/server.py and   *)
(* socketserver.py).  The inherited methods are modelled here under their  *)
(* Python names, each next to the line of simple_server.py that inherits   *)
(* or calls it.                                                            *)
(***************************************************************************)
EXTENDS Integers, Sequences, FiniteSets, TLC

VARIABLES
    pc,              \* position of the main block (lines 31-47)
    sock,            \* httpd.socket: "none", "listening" or "closed"
    exitCode,        \* process exit status, -1 while the process runs
    is_shut_down,    \* BaseServer.__is_shut_down (threading.Event)
    shutdown_request,\* BaseServer.__shutdown_request
    backlog,         \* connections completed by the kernel, not yet accepted
    nextConn,        \* id of the next connection a client opens
    h,               \* per connection: the request handler's state
    stdout,          \* lines written to sys.stdout, in order
    stderr,          \* tracebacks written to sys.stderr, in order
    trace,           \* connection ids in the order of their output events
    interrupts,      \* SIGINTs delivered so far
    clock            \* the wall clock: index of its reading in Times

vars == <<pc, sock, exitCode, is_shut_down, shutdown_request, backlog,
          nextConn, h, stdout, stderr, trace, interrupts, clock>>

---------------------------------------------------------------------------
(* Bounds of the model.                                                    *)

MaxConn == 3
MaxBacklog == 2
MaxInterrupts == 2
MaxLen == 2

Conns == 1..MaxConn

---------------------------------------------------------------------------
(* Inputs: what a client can send and what the filesystem can answer.      *)

Bytes == {10, 65}

RECURSIVE SeqsUpTo(_, _)
SeqsUpTo(S, n) ==
    IF n = 0 THEN {<<>>}
    ELSE LET shorter == SeqsUpTo(S, n - 1)
         IN  shorter \cup {Append(q, x) : q \in {r \in shorter : Len(r) = n - 1}, x \in S}

Contents == SeqsUpTo(Bytes, MaxLen)

Methods == {"GET", "HEAD", "OPTIONS", "POST", "PUT", "DELETE", "PATCH"}

\* What the request path resolves to under the working directory.
PathKinds == {"file", "file_denied", "file_readerr", "file_slash",
              "dir_noslash", "dir_index", "dir_list", "dir_denied", "none"}

\* Path kinds whose file is opened successfully and has a content.
OpenKinds == {"file", "file_readerr", "dir_index"}

\* A request as the handler reads it from rfile:
\*   raw     "eof" (client closed), "toolong" (> 65536 bytes) or "line"
\*   nwords  number of words of the request line
\*   method  words[0]
\*   version words[-1] when there are three words or more
\*   hdr     "ok", "toolarge" (parse_headers raises), "ims_fresh"
\*           (If-Modified-Since not before the file's mtime), "ims_stale"
\*   path    what words[1] resolves to; content: the bytes of that file
Req(raw, n, m, v, hd, p, c) ==
    [raw |-> raw, nwords |-> n, method |-> m, version |-> v, hdr |-> hd,
     path |-> p, content |-> c]

NoReq == Req("none", 0, "", "", "ok", "none", <<>>)

\* The content the path's file has, where it has one.
SomeContent == <<65>>

ContentOf(p) == IF p \in OpenKinds THEN SomeContent ELSE <<>>

Requests ==
    \* no request line, or a request line that is not parsed
    {Req(r, 0, "", "", "ok", "none", <<>>) : r \in {"eof", "toolong"}}
    \* malformed request lines
    \cup {Req("line", n, "GET", "", "ok", "none", <<>>) : n \in {0, 1}}
    \cup {Req("line", n, m, v, "ok", "file", SomeContent) :
            n \in {3, 4}, m \in {"GET", "OPTIONS"},
            v \in {"FOO/1", "HTTP/2.0", "HTTP/1.1"}}
    \* HTTP/0.9 simple requests (two words)
    \cup {Req("line", 2, m, "", "ok", p, ContentOf(p)) :
            m \in {"GET", "OPTIONS", "POST"}, p \in {"file", "none"}}
    \* oversized or too many header lines
    \cup {Req("line", 3, m, "HTTP/1.1", "toolarge", "file", SomeContent) :
            m \in {"GET", "OPTIONS"}}
    \* HTTP/1.x requests of every method for every kind of path
    \cup {Req("line", 3, m, "HTTP/1.1", "ok", p, ContentOf(p)) :
            m \in Methods, p \in PathKinds}
    \cup {Req("line", 3, "GET", "HTTP/1.0", "ok", p, ContentOf(p)) :
            p \in {"file", "none"}}
    \* GET of files of every content
    \cup {Req("line", 3, "GET", "HTTP/1.1", "ok", p, c) :
            p \in {"file", "file_readerr"}, c \in Contents}
    \* conditional requests
    \cup {Req("line", 3, m, "HTTP/1.1", hd, "file", SomeContent) :
            m \in {"GET", "HEAD"}, hd \in {"ims_fresh", "ims_stale"}}

\* Wall-clock readings of time.strftime's implicit localtime().
Tm(Y, M, D, hh, mm, ss) == [Y |-> Y, M |-> M, D |-> D, hh |-> hh, mm |-> mm, ss |-> ss]

\* The readings the wall clock goes through, in order.
Times == <<Tm(2026, 1, 5, 0, 7, 9), Tm(2026, 11, 30, 23, 59, 58)>>

---------------------------------------------------------------------------
(* log_message (lines 25-29): "[" strftime "] " message, to stdout.        *)

Digits == <<"0", "1", "2", "3", "4", "5", "6", "7", "8", "9">>

\* %d / %m / %H / %M / %S and %Y of time.strftime: decimal, zero padded.
RECURSIVE Pad(_, _)
Pad(n, width) ==
    IF width = 0 THEN <<>>
    ELSE Append(Pad(n \div 10, width - 1), Digits[(n % 10) + 1])

\* Variant of strftime with the format '%Y-%m-%d %H:%M' (no seconds).
strftime_noSeconds(t) ==
    Pad(t.Y, 4) \o <<"-">> \o Pad(t.M, 2) \o <<"-">> \o Pad(t.D, 2) \o <<" ">>
    \o Pad(t.hh, 2) \o <<":">> \o Pad(t.mm, 2)

\* time.strftime('%Y-%m-%d %H:%M:%S') at wall-clock reading t (line 27).
strftime(t) ==
    Pad(t.Y, 4) \o <<"-">> \o Pad(t.M, 2) \o <<"-">> \o Pad(t.D, 2) \o <<" ">>
    \o Pad(t.hh, 2) \o <<":">> \o Pad(t.mm, 2) \o <<":">> \o Pad(t.ss, 2)

\* The line written for one log_message call (line 28): the bracketed
\* timestamp, then format % args (kept as the kind of message and its code).
LogLine(t, msg, code) ==
    [prefix |-> <<"[">> \o strftime(t) \o <<"]", " ">>, msg |-> msg]

\* log_message(format, *args) (lines 25-29): one line per call.  s.clock
\* is the wall-clock reading while the request is handled.
log_message(s, msg, code) ==
    [s EXCEPT !.out = Append(@, LogLine(s.clock, msg, code))]

---------------------------------------------------------------------------
(* The request handler: CORSHTTPRequestHandler (lines 14-29) and the       *)
(* methods it inherits from SimpleHTTPRequestHandler.                      *)

EmptyBuf == [statusLine |-> 0, headers |-> <<>>]

\* A handler right after construction: nothing parsed, nothing buffered,
\* nothing written to the connection, no log line, no filesystem call.
NewHandler(t) ==
    [command |-> "", request_version |-> "", buf |-> EmptyBuf,
     wire |-> [statusLine |-> 0, headers |-> <<>>, blocks |-> 0, body |-> <<>>],
     out |-> <<>>, fs |-> <<>>, clock |-> t, code |-> 0]

Hdr(k, v) == [k |-> k, v |-> v]

\* The three headers end_headers adds (lines 16-18).
CORSHeaders ==
    << Hdr("Access-Control-Allow-Origin", "*"),
       Hdr("Access-Control-Allow-Methods", "GET, POST, OPTIONS, PUT, DELETE"),
       Hdr("Access-Control-Allow-Headers", "Content-Type, Authorization") >>

\* BaseHTTPRequestHandler.send_header, as called at lines 16-18: buffers
\* the header unless the request is an HTTP/0.9 simple request.
send_header(s, k, v) ==
    IF s.request_version # "HTTP/0.9"
    THEN [s EXCEPT !.buf.headers = Append(@, Hdr(k, v))]
    ELSE s

\* BaseHTTPRequestHandler.send_response_only: buffers the status line
\* unless the request is an HTTP/0.9 simple request.
send_response_only(s, code) ==
    IF s.request_version # "HTTP/0.9"
    THEN [s EXCEPT !.buf.statusLine = code]
    ELSE s

\* BaseHTTPRequestHandler.end_headers, as called by super().end_headers()
\* (line 19): ends the header block and flushes the buffer to the
\* connection, unless the request is an HTTP/0.9 simple request.
base_end_headers(s) ==
    IF s.request_version # "HTTP/0.9"
    THEN [s EXCEPT !.wire.statusLine = s.buf.statusLine,
                   !.wire.headers = @ \o s.buf.headers,
                   !.wire.blocks = @ + 1,
                   !.buf = EmptyBuf]
    ELSE s

\* Variant of end_headers that leaves out Access-Control-Allow-Headers.
end_headers_twoHeaders(s) ==
    base_end_headers(
        send_header(
            send_header(s, CORSHeaders[1].k, CORSHeaders[1].v),
            CORSHeaders[2].k, CORSHeaders[2].v))

\* CORSHTTPRequestHandler.end_headers (lines 15-19).
end_headers(s) ==
    base_end_headers(
        send_header(
            send_header(
                send_header(s, CORSHeaders[1].k, CORSHeaders[1].v),
                CORSHeaders[2].k, CORSHeaders[2].v),
            CORSHeaders[3].k, CORSHeaders[3].v))

\* BaseHTTPRequestHandler.log_request / log_error: both go through the
\* overridden log_message.
log_request(s, code) == log_message(s, "request", code)

log_error(s, code) == log_message(s, "code", code)

\* BaseHTTPRequestHandler.send_response, as called at line 22: logs the
\* request, buffers the status line and the Server and Date headers.
send_response(s, code) ==
    send_header(
        send_header(
            send_response_only([log_request(s, code) EXCEPT !.code = code], code),
            "Server", "SimpleHTTP"),
        "Date", "now")

\* The HTML page send_error writes as the body of an error response.
ErrorBody(code) == <<60, code>>

\* BaseHTTPRequestHandler.send_error: log_error, send_response, the
\* error headers, end_headers, then the HTML body unless the command is HEAD.
send_error(s, code) ==
    LET s1 == send_header(send_response(log_error(s, code), code), "Connection", "close")
        hasBody == code >= 200 /\ code \notin {204, 205, 304}
        s2 == IF hasBody
              THEN send_header(send_header(s1, "Content-Type", "text/html;charset=utf-8"),
                               "Content-Length", "len(body)")
              ELSE s1
        s3 == end_headers(s2)
    IN  IF s.command # "HEAD" /\ hasBody
        THEN [s3 EXCEPT !.wire.body = @ \o ErrorBody(code)]
        ELSE s3

\* CORSHTTPRequestHandler.do_OPTIONS (lines 21-23).
do_OPTIONS(s) == end_headers(send_response(s, 200))

\* A filesystem call made while handling the request.
fsop(s, op) == [s EXCEPT !.fs = Append(@, op)]

\* Variant of NotFound answering 500 Internal Server Error.
NotFound_500(s) == send_error(s, 500)

\* "except OSError: self.send_error(HTTPStatus.NOT_FOUND, ...)" of
\* send_head and list_directory: a path that cannot be opened or listed.
NotFound(s) == send_error(s, 404)

\* The HTML page list_directory builds for a directory without index file.
ListingBody == <<60, 47>>

\* SimpleHTTPRequestHandler.list_directory: os.listdir fails -> 404,
\* otherwise a 200 response whose body is the generated listing.
list_directory(s, req) ==
    LET s1 == fsop(s, "listdir")
    IN  IF req.path = "dir_denied"
        THEN [s |-> NotFound(s1), f |-> "none"]
        ELSE [s |-> end_headers(
                      send_header(
                        send_header(send_response(s1, 200),
                                    "Content-type", "text/html"),
                        "Content-Length", "len(listing)")),
              f |-> "listing"]

\* SimpleHTTPRequestHandler.send_head, the common code of GET and HEAD:
\* resolves the path, sends status and headers, returns the open file
\* (f = "file" or "listing") whose bytes the caller still has to copy.
send_head(s, req) ==
    LET s0 == fsop(s, "isdir")
    IN  IF req.path = "dir_noslash"
        THEN [s |-> end_headers(
                      send_header(
                        send_header(send_response(s0, 301), "Location", "path/"),
                        "Content-Length", "0")),
              f |-> "none"]
        ELSE IF req.path \in {"dir_list", "dir_denied"}
        THEN list_directory(fsop(s0, "isfile"), req)
        ELSE LET s1 == IF req.path = "dir_index" THEN fsop(s0, "isfile") ELSE s0
             IN  IF req.path = "file_slash"
                 THEN [s |-> NotFound(s1), f |-> "none"]
                 ELSE LET s2 == fsop(s1, "open")
                      IN  IF req.path \in {"none", "file_denied"}
                          THEN [s |-> NotFound(s2), f |-> "none"]
                          ELSE LET s3 == fsop(s2, "fstat")
                               IN  IF req.hdr = "ims_fresh"
                                   THEN [s |-> end_headers(send_response(s3, 304)),
                                         f |-> "none"]
                                   ELSE [s |-> end_headers(
                                                 send_header(
                                                   send_header(
                                                     send_header(send_response(s3, 200),
                                                                 "Content-type", "guess_type(path)"),
                                                     "Content-Length", "st_size"),
                                                   "Last-Modified", "st_mtime")),
                                         f |-> "file"]

\* Variant of HandlerMethods for a class without do_OPTIONS.
HandlerMethods_noOPTIONS == {"GET", "HEAD"}

\* The do_<command> methods the handler class has: do_GET and do_HEAD
\* inherited from SimpleHTTPRequestHandler (line 14), do_OPTIONS defined at
\* line 21.  There is no do_POST, do_PUT or do_DELETE.
HandlerMethods == {"GET", "HEAD", "OPTIONS"}

\* Versions parse_request accepts as well formed (HTTP/<digits>.<digits>).
WellFormedVersions == {"HTTP/1.0", "HTTP/1.1", "HTTP/2.0"}

\* BaseHTTPRequestHandler.parse_request: [ok, s].  On failure the error
\* response has been sent.  request_version stays at the default
\* "HTTP/0.9" until a well-formed version below 2.0 has been read.
parse_request(s, req) ==
    LET s0 == [s EXCEPT !.command = "", !.request_version = "HTTP/0.9"]
        n  == req.nwords
    IN  IF n = 0 THEN [ok |-> FALSE, s |-> s0]
        ELSE IF n >= 3 /\ req.version \notin WellFormedVersions
        THEN [ok |-> FALSE, s |-> send_error(s0, 400)]
        ELSE IF n >= 3 /\ req.version = "HTTP/2.0"
        THEN [ok |-> FALSE, s |-> send_error(s0, 505)]
        ELSE LET s1 == IF n >= 3 THEN [s0 EXCEPT !.request_version = req.version] ELSE s0
             IN  IF ~(2 <= n /\ n <= 3)
                 THEN [ok |-> FALSE, s |-> send_error(s1, 400)]
                 ELSE IF n = 2 /\ req.method # "GET"
                 THEN [ok |-> FALSE, s |-> send_error(s1, 400)]
                 ELSE LET s2 == [s1 EXCEPT !.command = req.method]
                      IN  IF req.hdr = "toolarge"
                          THEN [ok |-> FALSE, s |-> send_error(s2, 431)]
                          ELSE [ok |-> TRUE, s |-> s2]

\* Variant of dispatch in which every command but HEAD is served like GET.
dispatch_filesForAll(s, req) ==
    IF s.command = "HEAD"
    THEN [s |-> send_head(s, req).s, f |-> "none"]
    ELSE send_head(s, req)

\* getattr(self, 'do_' + self.command)(): the method the request is
\* dispatched to.  do_GET copies the file send_head returns (f is left
\* pending for copyfile), do_HEAD closes it.
dispatch(s, req) ==
    CASE s.command = "OPTIONS" -> [s |-> do_OPTIONS(s), f |-> "none"]
      [] s.command = "GET"     -> send_head(s, req)
      [] s.command = "HEAD"    -> [s |-> send_head(s, req).s, f |-> "none"]

\* BaseHTTPRequestHandler.handle_one_request, up to the point where do_GET
\* starts copying the file: [s, f].
handle_one_request(s, req) ==
    IF req.raw = "toolong"
    THEN [s |-> send_error([s EXCEPT !.request_version = "", !.command = ""], 414),
          f |-> "none"]
    ELSE IF req.raw = "eof"
    THEN [s |-> s, f |-> "none"]
    ELSE LET p == parse_request(s, req)
         IN  IF ~p.ok THEN [s |-> p.s, f |-> "none"]
             ELSE IF p.s.command \notin HandlerMethods
             THEN [s |-> send_error(p.s, 501), f |-> "none"]
             ELSE dispatch(p.s, req)

\* Variant of copyfileobj that reads and writes a single buffer.
copyfileobj_oneBuffer(src, out) ==
    IF src = <<>> THEN out ELSE Append(out, Head(src))

\* copyfile -> shutil.copyfileobj(source, outputfile): read a buffer,
\* write it, until read returns nothing (buffers of one byte here).
RECURSIVE copyfileobj(_, _)
copyfileobj(src, out) ==
    IF src = <<>> THEN out
    ELSE copyfileobj(Tail(src), Append(out, Head(src)))

---------------------------------------------------------------------------
(* The server: socketserver.TCPServer as the main block uses it            *)
(* (lines 31-47).                                                          *)

\* A connection's handler slot in a given step, with nothing in it.
Slot(step) ==
    [step |-> step, req |-> NoReq, s |-> NewHandler(Times[1]), f |-> "none", exc |-> FALSE]

\* Steps in which a connection is being processed (from accept to
\* shutdown_request).
Active == {"handle", "copy", "finished"}

InProgress == {c \in Conns : h[c].step \in Active}

\* Lines of one connection's handler, as they appear on stdout.
Tag(c, lines) ==
    [i \in 1..Len(lines) |->
        [conn |-> c, prefix |-> lines[i].prefix, msg |-> lines[i].msg]]

\* print(...) of the main block: a line without timestamp.
Printed(msg) == [conn |-> 0, prefix |-> <<>>, msg |-> msg]

\* The banner printed at lines 35-40.
BannerLines == [i \in 1..6 |-> Printed("banner")]

\* Records that connection c produced output (a log line or bytes on its
\* socket) after whatever was produced before.
Touch(tr, c) == IF tr # <<>> /\ tr[Len(tr)] = c THEN tr ELSE Append(tr, c)

\* Variant: process_request of ThreadingMixIn, which hands the request
\* to a new thread and returns to the accept loop at once.
ProcessRequestBlocks_threading == FALSE

\* BaseServer.process_request of TCPServer, the class instantiated at
\* line 34: finish_request runs in the serving thread, so the accept loop
\* does not come back to select() before the handler has returned.
ProcessRequestBlocks == TRUE

\* Variant: the except clause does not match KeyboardInterrupt.
InterruptCaught_no == FALSE

\* "except KeyboardInterrupt" around serve_forever() (lines 43-45).
InterruptCaught == TRUE

\* Variant: a handler's exception propagates out of serve_forever().
HandlerExceptionCaught_no == FALSE

\* An exception raised by a handler does not leave serve_forever()
\* (line 44): _handle_request_noblock catches Exception, reports it through
\* handle_error and closes the connection.
HandlerExceptionCaught == TRUE

\* Variant: the bind error is swallowed and the program goes on.
BindErrorPropagates_no == FALSE

\* Nothing catches the OSError of a failed bind (line 34 is outside any
\* try block): it ends the program.
BindErrorPropagates == TRUE

Init ==
    /\ pc = "start"
    /\ sock = "none"
    /\ exitCode = -1
    /\ is_shut_down = FALSE
    /\ shutdown_request = FALSE
    /\ backlog = <<>>
    /\ nextConn = 1
    /\ h = [c \in Conns |-> Slot("none")]
    /\ stdout = <<>>
    /\ stderr = <<>>
    /\ trace = <<>>
    /\ interrupts = 0
    /\ clock = 1

\* socketserver.TCPServer(("0.0.0.0", PORT), ...) (line 34): bind and
\* listen; on OSError server_close() and the exception leaves the program.
TCPServerInit ==
    /\ pc = "start"
    /\ \E r \in {"ok", "EADDRINUSE", "EACCES"} :
         IF r = "ok"
         THEN /\ sock' = "listening"
              /\ pc' = "banner"
              /\ UNCHANGED <<exitCode, stderr>>
         ELSE /\ sock' = "closed"
              /\ stderr' = Append(stderr, r)
              /\ IF BindErrorPropagates
                 THEN exitCode' = 1 /\ pc' = "done"
                 ELSE exitCode' = exitCode /\ pc' = "banner"
    /\ UNCHANGED <<is_shut_down, shutdown_request, backlog, nextConn, h, stdout,
                   trace, interrupts, clock>>

\* Lines 35-44: the banner, then serve_forever() clears __is_shut_down
\* and enters the select loop.
Banner ==
    /\ pc = "banner"
    /\ stdout' = stdout \o BannerLines
    /\ is_shut_down' = FALSE
    /\ pc' = "serve"
    /\ UNCHANGED <<sock, exitCode, shutdown_request, backlog, nextConn, h, stderr,
                   trace, interrupts, clock>>

\* A client connects: the kernel completes the handshake and queues the
\* connection on the listening socket.
Connect ==
    /\ sock = "listening"
    /\ nextConn <= MaxConn
    /\ Len(backlog) < MaxBacklog
    /\ backlog' = Append(backlog, nextConn)
    /\ h' = [h EXCEPT ![nextConn] = Slot("queued")]
    /\ nextConn' = nextConn + 1
    /\ UNCHANGED <<pc, sock, exitCode, is_shut_down, shutdown_request, stdout,
                   stderr, trace, interrupts, clock>>

\* serve_forever() -> _handle_request_noblock() -> get_request(): accept
\* the oldest queued connection and construct its handler.
GetRequest ==
    /\ pc = "serve"
    /\ ~shutdown_request
    /\ backlog # <<>>
    /\ ProcessRequestBlocks => InProgress = {}
    /\ h' = [h EXCEPT ![Head(backlog)] = Slot("handle")]
    /\ backlog' = Tail(backlog)
    /\ UNCHANGED <<pc, sock, exitCode, is_shut_down, shutdown_request, nextConn,
                   stdout, stderr, trace, interrupts, clock>>

\* The handler reads one request and answers it: handle() ->
\* handle_one_request(), up to the copy of the file's bytes.
HandleOneRequest(c) ==
    /\ pc = "serve"
    /\ h[c].step = "handle"
    /\ \E req \in Requests :
         LET r == handle_one_request(NewHandler(Times[clock]), req)
             wrote == r.s.out # <<>> \/ r.s.wire.blocks > 0 \/ r.s.wire.body # <<>>
         IN  /\ h' = [h EXCEPT ![c] = [step |-> IF r.f = "none" THEN "finished" ELSE "copy",
                                       req |-> req,
                                       s |-> [r.s EXCEPT !.clock = Times[1]],
                                       f |-> r.f,
                                       exc |-> FALSE]]
             /\ stdout' = stdout \o Tag(c, r.s.out)
             /\ trace' = IF wrote THEN Touch(trace, c) ELSE trace
    /\ UNCHANGED <<pc, sock, exitCode, is_shut_down, shutdown_request, backlog,
                   nextConn, stderr, interrupts, clock>>

\* do_GET -> copyfile(f, self.wfile): the bytes of the opened file (or of
\* the generated listing) go to the connection.  A read that raises
\* OSError leaves a prefix on the connection; the exception reaches
\* BaseServer.handle_error, which prints a traceback to stderr.
CopyFile(c) ==
    /\ pc = "serve"
    /\ h[c].step = "copy"
    /\ LET hc == h[c]
           src == IF hc.f = "listing" THEN ListingBody ELSE hc.req.content
       IN  IF hc.f = "file" /\ hc.req.path = "file_readerr"
           THEN \E k \in 0..Len(src) :
                  /\ stderr' = Append(stderr, "Exception")
                  /\ IF HandlerExceptionCaught
                     THEN /\ h' = [h EXCEPT ![c].step = "finished",
                                            ![c].exc = TRUE,
                                            ![c].s = fsop([hc.s EXCEPT !.wire.body =
                                                              copyfileobj(SubSeq(src, 1, k), @)],
                                                          "read")]
                          /\ UNCHANGED <<pc, sock, exitCode, is_shut_down>>
                     ELSE /\ h' = [h EXCEPT ![c] = Slot("closed")]
                          /\ is_shut_down' = TRUE
                          /\ sock' = "closed"
                          /\ exitCode' = 1
                          /\ pc' = "done"
           ELSE /\ h' = [h EXCEPT ![c].step = "finished",
                                  ![c].s = IF hc.f = "file"
                                           THEN fsop([hc.s EXCEPT !.wire.body = copyfileobj(src, @)],
                                                     "read")
                                           ELSE [hc.s EXCEPT !.wire.body = copyfileobj(src, @)]]
                /\ UNCHANGED <<pc, sock, exitCode, is_shut_down, stderr>>
    /\ trace' = Touch(trace, c)
    /\ UNCHANGED <<shutdown_request, backlog, nextConn, stdout, interrupts, clock>>

\* process_request -> shutdown_request(request): the connection is closed
\* and the accept loop goes back to select().
ShutdownRequest(c) ==
    /\ pc = "serve"
    /\ h[c].step = "finished"
    /\ h' = [h EXCEPT ![c] = Slot("closed")]
    /\ UNCHANGED <<pc, sock, exitCode, is_shut_down, shutdown_request, backlog,
                   nextConn, stdout, stderr, trace, interrupts, clock>>

\* SIGINT: Python raises KeyboardInterrupt in the main thread.
\*  - inside serve_forever() (line 44): a handler in progress is unwound
\*    (_handle_request_noblock closes its connection, which is left
\*    "aborted", and re-raises),
\*    serve_forever's finally sets __is_shut_down, and line 45 catches it;
\*  - anywhere else (before the try, or inside the except block): nothing
\*    catches it; the with block closes the socket on the way out and the
\*    interpreter exits with the status of an unhandled KeyboardInterrupt.
Interrupt ==
    /\ interrupts < MaxInterrupts
    /\ pc # "done"
    /\ interrupts' = interrupts + 1
    /\ IF pc = "serve"
       THEN /\ h' = [c \in Conns |-> IF h[c].step \in Active THEN Slot("aborted") ELSE h[c]]
            /\ shutdown_request' = FALSE
            /\ is_shut_down' = TRUE
       ELSE UNCHANGED <<h, shutdown_request, is_shut_down>>
    /\ IF pc = "serve" /\ InterruptCaught
       THEN /\ pc' = "except"
            /\ UNCHANGED <<sock, exitCode, stderr>>
       ELSE /\ sock' = IF sock = "listening" THEN "closed" ELSE sock
            /\ stderr' = Append(stderr, "KeyboardInterrupt")
            /\ exitCode' = 130
            /\ pc' = "done"
    /\ UNCHANGED <<backlog, nextConn, stdout, trace, clock>>

\* Line 46: print("\n... Server shutting down...").
PrintShutdown ==
    /\ pc = "except"
    /\ stdout' = Append(stdout, Printed("bye"))
    /\ pc' = "shutdown"
    /\ UNCHANGED <<sock, exitCode, is_shut_down, shutdown_request, backlog,
                   nextConn, h, stderr, trace, interrupts, clock>>

\* Line 47: httpd.shutdown() sets __shutdown_request and waits for
\* __is_shut_down; it returns only once the event is set.
Shutdown ==
    /\ pc = "shutdown"
    /\ is_shut_down
    /\ shutdown_request' = TRUE
    /\ pc' = "exit_with"
    /\ UNCHANGED <<sock, exitCode, is_shut_down, backlog, nextConn, h, stdout,
                   stderr, trace, interrupts, clock>>

\* End of the with block (line 34): __exit__ -> server_close() closes the
\* listening socket; the module ends and the process exits with status 0.
ServerClose ==
    /\ pc = "exit_with"
    /\ sock' = "closed"
    /\ exitCode' = 0
    /\ pc' = "done"
    /\ UNCHANGED <<is_shut_down, shutdown_request, backlog, nextConn, h, stdout,
                   stderr, trace, interrupts, clock>>

\* Time passes.
Tick ==
    /\ clock < Len(Times)
    /\ pc # "done"
    /\ clock' = clock + 1
    /\ UNCHANGED <<pc, sock, exitCode, is_shut_down, shutdown_request, backlog,
                   nextConn, h, stdout, stderr, trace, interrupts>>

Next ==
    \/ TCPServerInit
    \/ Banner
    \/ Connect
    \/ GetRequest
    \/ \E c \in Conns : HandleOneRequest(c)
    \/ \E c \in Conns : CopyFile(c)
    \/ \E c \in Conns : ShutdownRequest(c)
    \/ Interrupt
    \/ PrintShutdown
    \/ Shutdown
    \/ ServerClose
    \/ Tick

Spec == Init /\ [][Next]_vars

\* The main thread keeps running: once in the except block, each of its
\* statements is eventually executed.
FairSpec ==
    Spec /\ WF_vars(PrintShutdown) /\ WF_vars(Shutdown) /\ WF_vars(ServerClose)

---------------------------------------------------------------------------
(* Vocabulary of the properties.                                           *)

\* The handler of connection c has read its request and sent status and
\* headers (the body may still have to be copied).
Answered(c) == h[c].step \in {"copy", "finished"}

\* The handler of connection c has returned.
Finished(c) == h[c].step = "finished"

V1x == {"HTTP/1.0", "HTTP/1.1"}

\* A request line "<method> <path> HTTP/1.x" with acceptable headers.
WellFormed1x(req) ==
    req.raw = "line" /\ req.nwords = 3 /\ req.version \in V1x /\ req.hdr # "toolarge"

\* An HTTP/0.9 simple request: "GET <path>".
Simple09(req) == req.raw = "line" /\ req.nwords = 2 /\ req.method = "GET"

\* The header named k occurs exactly once among hs, with value v.
HasHeader(hs, k, v) ==
    /\ Cardinality({i \in 1..Len(hs) : hs[i].k = k}) = 1
    /\ \E i \in 1..Len(hs) : hs[i].k = k /\ hs[i].v = v

HasCORS(w) ==
    /\ HasHeader(w.headers, "Access-Control-Allow-Origin", "*")
    /\ HasHeader(w.headers, "Access-Control-Allow-Methods", "GET, POST, OPTIONS, PUT, DELETE")
    /\ HasHeader(w.headers, "Access-Control-Allow-Headers", "Content-Type, Authorization")

\* Something of a response has reached the client of connection c.
SentSomething(c) ==
    Answered(c) /\ (h[c].s.wire.blocks > 0 \/ h[c].s.wire.body # <<>>)

\* The stdout lines of connection c, and their kinds.
LinesOf(c) == SelectSeq(stdout, LAMBDA l : l.conn = c)

MsgsOf(c) == [i \in 1..Len(LinesOf(c)) |-> LinesOf(c)[i].msg]

\* p spells "[YYYY-MM-DD HH:MM:SS] ".
TimestampPrefix(p) ==
    /\ Len(p) = 22
    /\ p[1] = "[" /\ p[6] = "-" /\ p[9] = "-" /\ p[12] = " "
    /\ p[15] = ":" /\ p[18] = ":" /\ p[21] = "]" /\ p[22] = " "
    /\ \A i \in {2, 3, 4, 5, 7, 8, 10, 11, 13, 14, 16, 17, 19, 20} :
         p[i] \in {"0", "1", "2", "3", "4", "5", "6", "7", "8", "9"}

Stamped(c) == \A i \in 1..Len(LinesOf(c)) : TimestampPrefix(LinesOf(c)[i].prefix)

\* The constructor failed to bind (line 34).
BindFailed == stderr # <<>> /\ stderr[1] \in {"EADDRINUSE", "EACCES"}

\* The server is in the accept loop of serve_forever().
Listening == pc = "serve"

---------------------------------------------------------------------------
(* C1 *)

---------------------------------------------------------------------------
(* C2 *)

\* C2: every OPTIONS request (a request line "OPTIONS <path> HTTP/1.x"
\* that parse_request accepts), whatever its path resolves to, is answered
\* with a 2xx status and an empty body, without any filesystem call.
C2_OptionsEmptySuccess ==
    \A c \in Conns :
        Answered(c) /\ WellFormed1x(h[c].req) /\ h[c].req.method = "OPTIONS" =>
            /\ Finished(c)
            /\ h[c].s.wire.statusLine \in 200..299
            /\ h[c].s.wire.blocks = 1
            /\ h[c].s.wire.body = <<>>
            /\ h[c].s.fs = <<>>

C2_Witness ==
    \E c \in Conns :
        /\ Finished(c) /\ WellFormed1x(h[c].req) /\ h[c].req.method = "OPTIONS"
        /\ h[c].req.path = "none"
        /\ h[c].s.wire.statusLine = 200
        /\ \E d \in Conns : d # c /\ h[d].step = "closed"

---------------------------------------------------------------------------
(* C3 *)

\* C3 as stated: each request that is answered, with a success or with
\* an error response, produces exactly one log line, and the line starts
\* with "[YYYY-MM-DD HH:MM:SS] ".
C3_ExactlyOneLogLine ==
    \A c \in Conns :
        Answered(c) /\ h[c].s.code # 0 =>
            Len(LinesOf(c)) = 1 /\ Stamped(c)

\* C3, amended: a request answered without send_error (200, 301, 304)
\* produces exactly one log line; a request answered with an error
\* response (400, 404, 414, 431, 501, 505) produces exactly two, the
\* log_error line and then the access-log line; a connection that sends no
\* request line, or a blank one, produces none.  Every line starts with
\* "[YYYY-MM-DD HH:MM:SS] ".
C3_LogLinesPerResponse ==
    \A c \in Conns :
        Answered(c) =>
            /\ MsgsOf(c) = IF h[c].s.code = 0 THEN <<>>
                           ELSE IF h[c].s.code >= 400 THEN <<"code", "request">>
                           ELSE <<"request">>
            /\ Stamped(c)
            /\ h[c].s.code = 0 <=> h[c].req.raw = "eof" \/ (h[c].req.raw = "line" /\ h[c].req.nwords = 0)

C3_Witness ==
    \E c, d \in Conns :
        /\ Finished(c) /\ h[c].s.code = 404 /\ Len(LinesOf(c)) = 2 /\ Stamped(c)
        /\ h[d].step = "closed" /\ Len(LinesOf(d)) = 1 /\ Stamped(d)
        /\ LinesOf(c)[1].prefix # LinesOf(d)[1].prefix

---------------------------------------------------------------------------
(* C4 *)

\* C4 as stated: GET, HEAD, POST, PUT and DELETE all pass through to file
\* serving (the path is resolved; the file is served if found, a 404-class
\* response is returned if not).
C4_AllMethodsServeFiles ==
    \A c \in Conns :
        Answered(c) /\ WellFormed1x(h[c].req)
                    /\ h[c].req.method \in {"GET", "HEAD", "POST", "PUT", "DELETE"} =>
            /\ h[c].s.fs # <<>>
            /\ h[c].req.path = "none" => h[c].s.wire.statusLine \in 400..499
            /\ h[c].req.path = "file" /\ h[c].req.hdr = "ok" =>
                   h[c].s.wire.statusLine \in 200..299

\* C4, amended: only GET and HEAD pass through to file serving (the path
\* is resolved; an existing file is answered 200, a path without file
\* 404); POST, PUT, DELETE and any other method without a do_ method are
\* answered 501 without any filesystem call; OPTIONS is answered 200
\* without any filesystem call.
C4_OnlyGetHeadServeFiles ==
    \A c \in Conns :
        Answered(c) /\ WellFormed1x(h[c].req) =>
            LET req == h[c].req
                w == h[c].s.wire
            IN  /\ req.method \in {"GET", "HEAD"} =>
                    /\ h[c].s.fs # <<>> /\ h[c].s.fs[1] = "isdir"
                    /\ req.path = "file" /\ req.hdr # "ims_fresh" => w.statusLine = 200
                    /\ req.path = "none" => w.statusLine = 404
                /\ req.method = "OPTIONS" => h[c].s.fs = <<>> /\ w.statusLine = 200
                /\ req.method \notin {"GET", "HEAD", "OPTIONS"} =>
                    h[c].s.fs = <<>> /\ w.statusLine = 501

C4_Witness ==
    \E c \in Conns :
        /\ Finished(c) /\ WellFormed1x(h[c].req)
        /\ h[c].req.method = "POST" /\ h[c].req.path = "file"
        /\ h[c].s.wire.statusLine = 501 /\ h[c].s.fs = <<>>

---------------------------------------------------------------------------
(* C5 *)

\* C5 as stated: requesting a file that exists in the serving root
\* returns a 2xx status and a body that is exactly the file's bytes.
C5_ExistingFileExactBytes ==
    \A c \in Conns :
        Finished(c) /\ (WellFormed1x(h[c].req) \/ Simple09(h[c].req))
                    /\ h[c].req.method = "GET" /\ h[c].req.path = "file" =>
            /\ h[c].s.wire.statusLine \in 200..299
            /\ h[c].s.wire.body = h[c].req.content

\* C5, amended: a GET request in HTTP/1.0 or 1.1 for an existing,
\* readable file returns status 200 and exactly the file's bytes, unless
\* it carries an If-Modified-Since date that is not before the file's
\* modification time: then the status is 304 and the body is empty.  An
\* HTTP/0.9 request ("GET <path>") gets exactly the file's bytes and no
\* status line.
C5_FileBytesUnlessNotModified ==
    \A c \in Conns :
        Finished(c) /\ h[c].req.method = "GET" /\ h[c].req.path = "file" =>
            LET req == h[c].req
                w == h[c].s.wire
            IN  /\ WellFormed1x(req) /\ req.hdr # "ims_fresh" =>
                    w.statusLine = 200 /\ w.body = req.content
                /\ WellFormed1x(req) /\ req.hdr = "ims_fresh" =>
                    w.statusLine = 304 /\ w.body = <<>>
                /\ Simple09(req) =>
                    w.statusLine = 0 /\ w.body = req.content

C5_Witness ==
    \E c \in Conns :
        /\ Finished(c) /\ WellFormed1x(h[c].req)
        /\ h[c].req.method = "GET" /\ h[c].req.path = "file"
        /\ Len(h[c].req.content) = 2 /\ h[c].req.content[1] # h[c].req.content[2]
        /\ h[c].s.wire.statusLine = 200
        /\ h[c].s.wire.body = h[c].req.content

---------------------------------------------------------------------------
(* C6 *)

\* C6 as stated: requesting a path that has no corresponding file returns
\* a response with a 4xx status (for the methods that are meant to serve
\* files, that is all but OPTIONS).
C6_MissingPathIs4xx ==
    \A c \in Conns :
        Answered(c) /\ (WellFormed1x(h[c].req) \/ Simple09(h[c].req))
                    /\ h[c].req.method \in {"GET", "HEAD", "POST", "PUT", "DELETE"}
                    /\ h[c].req.path = "none" =>
            h[c].s.wire.statusLine \in 400..499

\* C6, amended: a GET or HEAD request in HTTP/1.0 or 1.1 for a path that
\* has no corresponding file returns status 404.  An HTTP/0.9 request
\* ("GET <path>") for such a path gets the 404 error page without a status
\* line; POST, PUT and DELETE get 501.
C6_MissingPathGetHead404 ==
    \A c \in Conns :
        Answered(c) /\ h[c].req.path = "none" =>
            LET req == h[c].req
                w == h[c].s.wire
            IN  /\ WellFormed1x(req) /\ req.method \in {"GET", "HEAD"} =>
                    Finished(c) /\ w.statusLine = 404
                /\ Simple09(req) =>
                    Finished(c) /\ w.statusLine = 0 /\ h[c].s.code = 404 /\ w.body # <<>>
                /\ WellFormed1x(req) /\ req.method \in {"POST", "PUT", "DELETE"} =>
                    w.statusLine = 501

C6_Witness ==
    \E c \in Conns :
        /\ Finished(c) /\ WellFormed1x(h[c].req)
        /\ h[c].req.method = "HEAD" /\ h[c].req.path = "none"
        /\ h[c].s.wire.statusLine = 404 /\ h[c].s.wire.body = <<>>

---------------------------------------------------------------------------
(* C7 *)

FsErrorKinds == {"none", "file_denied", "dir_denied", "file_readerr"}

\* C7 as stated: a filesystem error while handling a request (missing
\* file, permission denied, read error) is turned into an HTTP error
\* status sent to that client, and the server is still listening.
C7_FsErrorsBecomeErrorStatus ==
    \A c \in Conns :
        Finished(c) /\ WellFormed1x(h[c].req) /\ h[c].req.method = "GET"
                    /\ h[c].req.path \in FsErrorKinds =>
            /\ h[c].s.wire.statusLine >= 400
            /\ Listening /\ exitCode = -1 /\ sock = "listening"

\* C7, amended: a missing file and a permission error (open or listdir
\* failing) are turned into a 404 sent to that client.  An error while
\* reading a file that was opened happens after status 200 and the
\* headers have been sent: the client gets a prefix of the file and no
\* error status, and the exception is reported on stderr.  None of them
\* stops the server: it is still in the accept loop with its socket
\* listening, and the process ends only through a failed bind or an
\* interrupt.
C7_FsErrorsNeverStopServer ==
    /\ \A c \in Conns :
         Finished(c) /\ WellFormed1x(h[c].req) /\ h[c].req.method = "GET"
                     /\ h[c].req.path \in FsErrorKinds =>
            LET req == h[c].req
                w == h[c].s.wire
            IN  /\ req.path # "file_readerr" => w.statusLine = 404 /\ ~h[c].exc
                /\ req.path = "file_readerr" =>
                     /\ w.statusLine = 200 /\ h[c].exc
                     /\ \E k \in 0..Len(req.content) : w.body = SubSeq(req.content, 1, k)
                     /\ \E i \in 1..Len(stderr) : stderr[i] = "Exception"
                /\ Listening /\ exitCode = -1 /\ sock = "listening"
    /\ exitCode # -1 => BindFailed \/ interrupts > 0
    /\ Listening /\ InProgress = {} /\ backlog # <<>> => ENABLED GetRequest

\* After a request that failed while reading, the next one is answered.
C7_Witness ==
    /\ stderr = <<"Exception">>
    /\ \E i \in 1..Len(stdout) : stdout[i].conn = 1 /\ stdout[i].msg = "code"
    /\ h[1].step = "closed" /\ h[2].step = "closed"
    /\ Finished(3) /\ h[3].s.wire.statusLine = 200 /\ h[3].s.wire.body # <<>>
    /\ Listening

---------------------------------------------------------------------------
(* C8 *)

\* serve_forever() has been left (its finally clause has run).
LeftServeForever == is_shut_down

ByePrinted == stdout # <<>> /\ stdout[Len(stdout)].msg = "bye"

\* C8: once the server is listening, an interrupt, received while idle
\* or while a request is in flight, always leads to termination without
\* deadlock: the accept loop is left for good, httpd.shutdown() never
\* waits, the listening socket is released, and, when no second interrupt
\* cuts the except block short, the shutdown message is the last line
\* printed, shutdown() has been called and the exit code is 0.
C8_InterruptTerminates ==
    /\ [](LeftServeForever => ~Listening)
    /\ [](pc = "shutdown" => is_shut_down)
    /\ [](pc = "done" /\ LeftServeForever => sock = "closed" /\ exitCode # -1)
    /\ [](pc = "done" /\ LeftServeForever /\ interrupts = 1 =>
            exitCode = 0 /\ ByePrinted /\ shutdown_request)
    /\ (LeftServeForever ~> pc = "done")

\* A clean exit after an interrupt that arrived while a request was in
\* flight, with a connection left unaccepted.
C8_Witness ==
    /\ pc = "done" /\ exitCode = 0 /\ sock = "closed" /\ ByePrinted
    /\ interrupts = 1
    /\ \E c \in Conns : h[c].step = "aborted"
    /\ backlog # <<>>

---------------------------------------------------------------------------
(* C9 *)

\* C9: if binding 0.0.0.0:8000 fails, the process never listens, does not
\* retry the bind, prints no banner (nothing at all on stdout), accepts
\* no connection, and has terminated with a non-zero status after the
\* error was reported on stderr.
C9_BindFailureEndsProgram ==
    BindFailed =>
        /\ pc = "done"
        /\ exitCode \notin {-1, 0}
        /\ sock # "listening"
        /\ stdout = <<>>
        /\ Len(stderr) = 1
        /\ backlog = <<>> /\ nextConn = 1
        /\ \A c \in Conns : h[c].step = "none"
        /\ ~ENABLED TCPServerInit
        /\ ~ENABLED Banner

C9_Witness ==
    BindFailed /\ stderr = <<"EACCES">> /\ exitCode = 1 /\ pc = "done"

---------------------------------------------------------------------------
(* C10 *)

\* C10: requests are handled strictly one at a time: at most one
\* connection is in progress, a connection that arrives meanwhile stays
\* queued until that one is closed, connections are taken in arrival
\* order, and the output of one connection (log lines, headers, body) is
\* never interleaved with that of another.
C10_OneRequestAtATime ==
    /\ Cardinality(InProgress) <= 1
    /\ \A c \in InProgress : \A d \in Conns : d > c => h[d].step \in {"none", "queued"}
    /\ \A c, d \in Conns :
         c < d /\ h[d].step \notin {"none", "queued"} => h[c].step \in {"closed", "aborted"}
    /\ \A i, j \in 1..Len(trace) : trace[i] = trace[j] => i = j

\* Two connections wait in the queue while the body of a third is copied.
C10_Witness ==
    /\ \E c \in Conns : h[c].step = "copy" /\ h[c].s.wire.blocks = 1
    /\ Len(backlog) = 2

====
